---- MODULE Spec2Model ----
(***************************************************************************)
(* Model of the ParaView filter PDcracktip (src/PDcracktip.py): the        *)
(* configuration setters, RequestData and the scan of ProcessBlock.        *)
(*                                                                         *)
(* Numbers.  Coordinates are integers.  Phase-field values and the         *)
(* threshold _d_c are counted in halves: 0, 1, 2 stand for 0.0, 0.5, 1.0,  *)
(* so the constructor's 0.5 is DefaultDc = 1.  Only comparisons are made   *)
(* on field values, so the unit does not change any outcome.               *)
(*                                                                         *)
(* Library objects.  A data set is its class name, its sequence of points  *)
(* and its point data, a function from array names to sequences of values  *)
(* as long as the points.  The output is the sequence of the points that   *)
(* RequestData inserts: vtkPoints is taken to hold the coordinates handed  *)
(* to InsertNextPoint as they are (its single-precision storage is not     *)
(* modelled; the integer coordinates used here are exact in it).           *)
(*                                                                         *)
(* One RequestData call is split in steps (reset, dispatch, one step per   *)
(* loop iteration, emit).  pc[c] is the position of call c.  Spec runs     *)
(* the calls of one caller, one after the other, as ParaView's pipeline    *)
(* does.  SpecConc lets the steps of two calls on the same filter          *)
(* interleave.                                                             *)
(***************************************************************************)
EXTENDS Integers, Sequences, FiniteSets

\* ------------------------------------------------------------------ bounds
\* Largest number of points of an input.
MaxPts == 2

\* --------------------------------------------------------------- constants
\* vtk.VTK_FLOAT_MAX (3.4028e38): here a value above every coordinate of the
\* model; it is only ever compared with coordinates.
VTK_FLOAT_MAX == 1000000
\* _d_c of __init__, 0.5, in halves.
DefaultDc == 1
\* _global_max_distance_sq of __init__ and of RequestData.
MaxDistSentinelZero == 1 - 1
MaxDistSentinel == -1

DefaultArrayName == "d"
DefaultTip == <<0, 0, 0>>
DefaultRegionMin == <<-VTK_FLOAT_MAX, -VTK_FLOAT_MAX, -VTK_FLOAT_MAX>>
DefaultRegionMax == <<VTK_FLOAT_MAX, VTK_FLOAT_MAX, VTK_FLOAT_MAX>>

\* ------------------------------------------------------------ input values
Pts == {<<0, 0, 0>>, <<1, 0, 0>>, <<-1, 0, 0>>, <<0, 1, 1>>}
Values == 0..2
DcChoices == {0, 1}
TipChoices == {<<0, 0, 0>>, <<1, 0, 0>>}
RegionMinChoices == {DefaultRegionMin, <<0, 0, 0>>, <<1, 0, 0>>}
RegionMaxChoices == {DefaultRegionMax, <<0, 1, 1>>}
NameChoices == {"d", "e", "None", ""}
Types == {"vtkUnstructuredGrid", "vtkPolyData"}
\* The points and the field values of the inputs of SpecConc.
ConcPts == {<<1, 0, 0>>, <<0, 1, 1>>}
ConcValues == {2}
Calls == {"a", "b"}
MainCall == "a"

\* Point data without arrays.
NoArrays == [a \in {} |-> <<>>]
\* A data set of the class t with the points ps; its point data holds the
\* array "d" with the values vs when hasD, and no array otherwise.
DataSet(t, ps, vs, hasD) ==
  [type |-> t, points |-> ps,
   arrays |-> IF hasD THEN [a \in {"d"} |-> vs] ELSE NoArrays]
\* What a call holds before its first RequestData.
NoInput == [type |-> "none", points |-> <<>>, arrays |-> NoArrays]
\* An output data object without points.
NoOutput == <<>>
\* What GetArray returns for a name the point data does not hold: None, which
\* is no array.  An array that is held comes back as Array(vs).
NoArray == [found |-> FALSE, values |-> <<>>]
Array(vs) == [found |-> TRUE, values |-> vs]

VARIABLES d_c, array_name, initial_tip, region_min, region_max,
          global_current_tip, global_max_distance_sq,
          pc, input, i, ret, output

config == <<d_c, array_name, initial_tip, region_min, region_max>>
fields == <<global_current_tip, global_max_distance_sq>>
calls == <<pc, input, i, ret, output>>
vars == <<d_c, array_name, initial_tip, region_min, region_max,
          global_current_tip, global_max_distance_sq,
          pc, input, i, ret, output>>

\* ------------------------------------------------------- pure parts of code
\* isinstance(input_data, vtk.vtkUnstructuredGrid)
IsAnyDataSet(in) == in.type \in Types
IsUnstructuredGrid(in) == in.type = "vtkUnstructuredGrid"

\* point_data.GetArray(self._array_name)
GetArrayFallback(pd, name) ==
  IF name \in DOMAIN pd THEN Array(pd[name])
  ELSE IF DOMAIN pd # {} THEN Array(pd[CHOOSE a \in DOMAIN pd : TRUE])
       ELSE NoArray
GetArray(pd, name) == IF name \in DOMAIN pd THEN Array(pd[name]) ELSE NoArray

\* the three region conditions of the if in the loop
InRegionOpenMin(p, rmin, rmax) ==
  /\ rmin[1] < p[1] /\ p[1] <= rmax[1]
  /\ rmin[2] < p[2] /\ p[2] <= rmax[2]
  /\ rmin[3] < p[3] /\ p[3] <= rmax[3]
InRegion(p, rmin, rmax) ==
  /\ rmin[1] <= p[1] /\ p[1] <= rmax[1]
  /\ rmin[2] <= p[2] /\ p[2] <= rmax[2]
  /\ rmin[3] <= p[3] /\ p[3] <= rmax[3]

\* phase_field_array.GetValue(i) > self._d_c
AboveThresholdGe(v, dc) == v >= dc
AboveThreshold(v, dc) == v > dc

\* distance_sq
DistSqNoX(p, q) ==
  (p[2] - q[2]) * (p[2] - q[2]) + (p[3] - q[3]) * (p[3] - q[3])
DistSq(p, q) ==
  (p[1] - q[1]) * (p[1] - q[1]) + (p[2] - q[2]) * (p[2] - q[2])
    + (p[3] - q[3]) * (p[3] - q[3])

\* distance_sq > self._global_max_distance_sq
FartherGe(d, best) == d >= best
Farther(d, best) == d > best

\* The two assignments at the head of RequestData, on the pair
\* [best |-> _global_max_distance_sq, tip |-> _global_current_tip].
KeepAcc(acc, ref) == acc
ResetAcc(acc, ref) == [best |-> MaxDistSentinel, tip |-> ref]

\* The configuration as one record.
Config ==
  [d_c |-> d_c, array_name |-> array_name, initial_tip |-> initial_tip,
   region_min |-> region_min, region_max |-> region_max]

\* One iteration of the loop of ProcessBlock on point p with field value v.
VisitNoRegion(acc, p, v, cfg) ==
  IF AboveThreshold(v, cfg.d_c)
  THEN LET distance_sq == DistSq(p, cfg.initial_tip)
       IN IF Farther(distance_sq, acc.best)
          THEN [best |-> distance_sq, tip |-> p]
          ELSE acc
  ELSE acc
Visit(acc, p, v, cfg) ==
  IF InRegion(p, cfg.region_min, cfg.region_max) /\ AboveThreshold(v, cfg.d_c)
  THEN LET distance_sq == DistSq(p, cfg.initial_tip)
       IN IF Farther(distance_sq, acc.best)
          THEN [best |-> distance_sq, tip |-> p]
          ELSE acc
  ELSE acc

\* -------------------------------------------------------------------- init
Init ==
  /\ d_c = DefaultDc
  /\ array_name = DefaultArrayName
  /\ initial_tip = DefaultTip
  /\ global_current_tip = DefaultTip
  /\ global_max_distance_sq = MaxDistSentinel
  /\ region_min = DefaultRegionMin
  /\ region_max = DefaultRegionMax
  /\ pc = [c \in Calls |-> "idle"]
  /\ input = [c \in Calls |-> NoInput]
  /\ i = [c \in Calls |-> 0]
  /\ ret = [c \in Calls |-> -1]
  /\ output = [c \in Calls |-> NoOutput]

\* No call of RequestData is in progress: the caller has the control.
Quiet == \A c \in Calls : pc[c] = "idle"

\* ----------------------------------------------------------------- setters
SetCriticalPhaseFieldValue(value) ==
  /\ Quiet
  /\ d_c' = value
  /\ UNCHANGED <<array_name, initial_tip, region_min, region_max, fields, calls>>

SetInitialTipLocation(x, y, z) ==
  /\ Quiet
  /\ initial_tip' = <<x, y, z>>
  /\ UNCHANGED <<d_c, array_name, region_min, region_max, fields, calls>>

SetRegionMin(x, y, z) ==
  /\ Quiet
  /\ region_min' = <<x, y, z>>
  /\ UNCHANGED <<d_c, array_name, initial_tip, region_max, fields, calls>>

SetRegionMax(x, y, z) ==
  /\ Quiet
  /\ region_max' = <<x, y, z>>
  /\ UNCHANGED <<d_c, array_name, initial_tip, region_min, fields, calls>>

SetArrayName(name) ==
  /\ Quiet
  /\ array_name' = IF name # "" /\ name # "None" THEN name ELSE array_name
  /\ UNCHANGED <<d_c, initial_tip, region_min, region_max, fields, calls>>

\* ------------------------------------------------------------- RequestData
\* Head of RequestData: the input is taken, the two fields are reset.
RequestData(c, in) ==
  /\ pc[c] = "idle"
  /\ LET acc == ResetAcc([best |-> global_max_distance_sq,
                          tip |-> global_current_tip], initial_tip)
     IN /\ global_max_distance_sq' = acc.best
        /\ global_current_tip' = acc.tip
  /\ input' = [input EXCEPT ![c] = in]
  /\ i' = [i EXCEPT ![c] = 0]
  /\ ret' = [ret EXCEPT ![c] = -1]
  /\ pc' = [pc EXCEPT ![c] = "dispatch"]
  /\ UNCHANGED <<config, output>>

\* else branch of the isinstance test: return 0.
Unsupported(c) ==
  /\ pc[c] = "dispatch"
  /\ ~IsUnstructuredGrid(input[c])
  /\ ret' = [ret EXCEPT ![c] = 0]
  /\ pc' = [pc EXCEPT ![c] = "done"]
  /\ UNCHANGED <<config, fields, input, i, output>>

\* ProcessBlock up to the loop: the array is looked up.
ProcessBlockEnter(c) ==
  /\ pc[c] = "dispatch"
  /\ IsUnstructuredGrid(input[c])
  /\ LET phase_field_array == GetArray(input[c].arrays, array_name)
     IN pc' = [pc EXCEPT ![c] =
                 IF ~phase_field_array.found \/ Len(input[c].points) = 0
                 THEN "emit" ELSE "loop"]
  /\ UNCHANGED <<config, fields, input, i, ret, output>>

\* One iteration of the loop of ProcessBlock.
LoopStep(c) ==
  /\ pc[c] = "loop"
  /\ i[c] < Len(input[c].points)
  /\ LET k == i[c] + 1
         phase_field_array == GetArray(input[c].arrays, array_name)
         acc == Visit([best |-> global_max_distance_sq,
                       tip |-> global_current_tip],
                      input[c].points[k], phase_field_array.values[k], Config)
     IN /\ global_max_distance_sq' = acc.best
        /\ global_current_tip' = acc.tip
        /\ i' = [i EXCEPT ![c] = k]
        /\ pc' = [pc EXCEPT ![c] =
                    IF k = Len(input[c].points) THEN "emit" ELSE "loop"]
  /\ UNCHANGED <<config, input, ret, output>>

\* Tail of RequestData: the output holds the one point, return 1.
Emit(c) ==
  /\ pc[c] = "emit"
  /\ output' = [output EXCEPT ![c] = <<global_current_tip>>]
  /\ ret' = [ret EXCEPT ![c] = 1]
  /\ pc' = [pc EXCEPT ![c] = "done"]
  /\ UNCHANGED <<config, fields, input, i>>

\* The call hands the control back to its caller with the value ret[c]; its
\* locals (input_data, the loop index) are gone.
Return(c) ==
  /\ pc[c] = "done"
  /\ pc' = [pc EXCEPT ![c] = "idle"]
  /\ input' = [input EXCEPT ![c] = NoInput]
  /\ i' = [i EXCEPT ![c] = 0]
  /\ UNCHANGED <<config, fields, ret, output>>

\* ---------------------------------------------------------- specifications
Next ==
  \/ \E value \in DcChoices : SetCriticalPhaseFieldValue(value)
  \/ \E p \in TipChoices : SetInitialTipLocation(p[1], p[2], p[3])
  \/ \E p \in RegionMinChoices : SetRegionMin(p[1], p[2], p[3])
  \/ \E p \in RegionMaxChoices : SetRegionMax(p[1], p[2], p[3])
  \/ \E name \in NameChoices : SetArrayName(name)
  \/ /\ Quiet
     /\ \E t \in Types, n \in 0..MaxPts :
          \E ps \in [1..n -> Pts], vs \in [1..n -> Values], hasD \in BOOLEAN :
            RequestData(MainCall, DataSet(t, ps, vs, hasD))
  \/ Unsupported(MainCall)
  \/ ProcessBlockEnter(MainCall)
  \/ LoopStep(MainCall)
  \/ Emit(MainCall)
  \/ Return(MainCall)

Spec == Init /\ [][Next]_vars

\* Two calls of RequestData on the same filter, their steps interleaved; the
\* configuration is the one of the constructor.
NextConc ==
  \E c \in Calls :
    \/ /\ pc[c] = "idle"
       /\ \E t \in Types, n \in 0..MaxPts :
            \E ps \in [1..n -> ConcPts], vs \in [1..n -> ConcValues],
               hasD \in BOOLEAN :
              RequestData(c, DataSet(t, ps, vs, hasD))
    \/ Unsupported(c)
    \/ ProcessBlockEnter(c)
    \/ LoopStep(c)
    \/ Emit(c)
    \/ Return(c)

SpecConc == Init /\ [][NextConc]_vars

\* ------------------------------------------------ a call on a fresh filter
\* The loop of ProcessBlock from the index k on.
RECURSIVE ScanFrom(_, _, _, _, _)
ScanFrom(acc, points, values, k, cfg) ==
  IF k > Len(points) THEN acc
  ELSE ScanFrom(Visit(acc, points[k], values[k], cfg), points, values, k + 1, cfg)

\* ProcessBlock as a whole, on the pair of the two fields.
ProcessBlock(acc, in, cfg) ==
  LET phase_field_array == GetArray(in.arrays, cfg.array_name)
  IN IF ~IsUnstructuredGrid(in) \/ ~phase_field_array.found THEN acc
     ELSE ScanFrom(acc, in.points, phase_field_array.values, 1, cfg)

\* RequestData on a filter that was constructed, then configured as cfg, and
\* has run no call yet: the value returned and the point written.
FreshRequestData(in, cfg) ==
  LET constructed == [best |-> MaxDistSentinel, tip |-> DefaultTip]
      acc == ResetAcc(constructed, cfg.initial_tip)
  IN IF IsUnstructuredGrid(in)
     THEN [ret |-> 1, tip |-> ProcessBlock(acc, in, cfg).tip]
     ELSE [ret |-> 0, tip |-> acc.tip]

\* ==================================================================== claims
\* The statements below are written on the state alone, with their own
\* distance and predicates, and not with the operators of the model above.

\* Squared Euclidean distance.
SqDistance(p, q) ==
  LET d(a) == p[a] - q[a] IN d(1) * d(1) + d(2) * d(2) + d(3) * d(3)
Supported(c) == input[c].type = "vtkUnstructuredGrid"
FieldPresent(c) == array_name \in DOMAIN input[c].arrays
PointAt(c, k) == input[c].points[k]
ValueAt(c, k) == input[c].arrays[array_name][k]
InsideRegion(p) == \A a \in 1..3 : region_min[a] <= p[a] /\ p[a] <= region_max[a]
\* Point k of the input of call c is inside the region, above the threshold.
Qualifies(c, k) == InsideRegion(PointAt(c, k)) /\ ValueAt(c, k) > d_c
\* The qualifying indices among the first n points.
QualifyingUpTo(c, n) ==
  IF FieldPresent(c) THEN {k \in 1..n : Qualifies(c, k)} ELSE {}
Qualifying(c) == QualifyingUpTo(c, Len(input[c].points))
DistAt(c, k) == SqDistance(PointAt(c, k), initial_tip)
Returned(c) == pc[c] = "done"

\* C1: after RequestData on a supported input with the field present, the
\* squared distance from the tip written to the reference point is the
\* maximum squared distance over the qualifying points, or 0 if there is none.
C1_MaxDistance ==
  (Returned(MainCall) /\ Supported(MainCall) /\ FieldPresent(MainCall)) =>
    /\ ret[MainCall] = 1
    /\ Len(output[MainCall]) = 1
    /\ LET d == SqDistance(output[MainCall][1], initial_tip)
           Q == Qualifying(MainCall)
       IN IF Q = {} THEN d = 0
          ELSE /\ \E k \in Q : DistAt(MainCall, k) = d
               /\ \A k \in Q : DistAt(MainCall, k) <= d
\* A farther qualifying point is followed by a nearer one, not on the reference.
C1_Witness ==
  /\ Returned(MainCall) /\ Supported(MainCall) /\ FieldPresent(MainCall)
  /\ \E j, k \in Qualifying(MainCall) :
       j < k /\ DistAt(MainCall, j) > DistAt(MainCall, k) /\ DistAt(MainCall, k) > 0
  /\ output[MainCall] = <<PointAt(MainCall, 1)>>

\* C2: when no point of a supported input qualifies (empty point set and
\* degenerate region included), the tip written is exactly the reference
\* point and RequestData returns 1.
C2_NoneQualifies ==
  (Returned(MainCall) /\ Supported(MainCall) /\ Qualifying(MainCall) = {}) =>
    /\ ret[MainCall] = 1
    /\ output[MainCall] = <<initial_tip>>
\* Degenerate region, points above the threshold, reference off the origin.
C2_Witness ==
  /\ Returned(MainCall) /\ Supported(MainCall) /\ FieldPresent(MainCall)
  /\ \E a \in 1..3 : region_min[a] > region_max[a]
  /\ Len(input[MainCall].points) > 0
  /\ \A k \in 1..Len(input[MainCall].points) : ValueAt(MainCall, k) > d_c
  /\ initial_tip # DefaultTip
  /\ output[MainCall] = <<initial_tip>>

\* C3: among the qualifying points at the maximal squared distance, the tip
\* written is the one of lowest index.
C3_TieBreak ==
  (Returned(MainCall) /\ Supported(MainCall) /\ Qualifying(MainCall) # {}) =>
    LET Q == Qualifying(MainCall)
        Farthest == {k \in Q : \A j \in Q : DistAt(MainCall, j) <= DistAt(MainCall, k)}
        first == CHOOSE k \in Farthest : \A j \in Farthest : k <= j
    IN output[MainCall] = <<PointAt(MainCall, first)>>
\* Two different points tie at the maximal distance; the earlier one is out.
C3_Witness ==
  /\ Returned(MainCall) /\ Supported(MainCall) /\ FieldPresent(MainCall)
  /\ \E j, k \in Qualifying(MainCall) :
       /\ j < k
       /\ DistAt(MainCall, j) = DistAt(MainCall, k)
       /\ PointAt(MainCall, j) # PointAt(MainCall, k)
       /\ \A m \in Qualifying(MainCall) : DistAt(MainCall, m) <= DistAt(MainCall, j)
       /\ output[MainCall] = <<PointAt(MainCall, j)>>

\* The step is an iteration of the loop of call c.
IsLoopStep(c) == pc[c] = "loop" /\ i'[c] = i[c] + 1

\* C4: an iteration on a point whose field value equals the threshold leaves
\* the best distance and the best point as they were.
C4_StrictThreshold ==
  [][(IsLoopStep(MainCall) /\ ValueAt(MainCall, i[MainCall] + 1) = d_c) =>
       UNCHANGED <<global_max_distance_sq, global_current_tip>>]_vars
\* The first point is in the region, off the reference, at the threshold,
\* and was passed over.
C4_Witness ==
  /\ pc[MainCall] \in {"loop", "emit"} /\ i[MainCall] = 1
  /\ FieldPresent(MainCall)
  /\ ValueAt(MainCall, 1) = d_c
  /\ InsideRegion(PointAt(MainCall, 1))
  /\ PointAt(MainCall, 1) # initial_tip
  /\ global_max_distance_sq = -1
  /\ global_current_tip = initial_tip

\* The point lies on the lower or the upper bound of the region on some axis.
OnBound(p) == \E a \in 1..3 : p[a] = region_min[a] \/ p[a] = region_max[a]

\* C5: an iteration on a point on a bound of the region, inside the region
\* and above the threshold, treats it as a candidate: it becomes the best
\* point when it is farther than the best so far.
C5_InclusiveBounds ==
  [][(/\ IsLoopStep(MainCall)
      /\ OnBound(PointAt(MainCall, i[MainCall] + 1))
      /\ Qualifies(MainCall, i[MainCall] + 1)) =>
       LET k == i[MainCall] + 1
       IN /\ global_max_distance_sq' >= DistAt(MainCall, k)
          /\ DistAt(MainCall, k) > global_max_distance_sq =>
               /\ global_max_distance_sq' = DistAt(MainCall, k)
               /\ global_current_tip' = PointAt(MainCall, k)]_vars
\* The point just scanned is on the lower bound on one axis and on the upper
\* bound on one axis, and is the best point.
C5_Witness ==
  /\ pc[MainCall] \in {"loop", "emit"} /\ i[MainCall] >= 1
  /\ FieldPresent(MainCall)
  /\ LET p == PointAt(MainCall, i[MainCall])
     IN /\ \E a \in 1..3 : p[a] = region_min[a]
        /\ \E a \in 1..3 : p[a] = region_max[a]
        /\ Qualifies(MainCall, i[MainCall])
        /\ p # initial_tip
        /\ global_current_tip = p
        /\ global_max_distance_sq = SqDistance(p, initial_tip)

\* C6: when the array asked for is absent from a supported input, no point
\* is scanned, RequestData returns 1 and writes the reference point.
C6_FieldNotFound ==
  /\ (pc[MainCall] \in {"emit", "done"} /\ Supported(MainCall)
        /\ ~FieldPresent(MainCall)) =>
       /\ i[MainCall] = 0
       /\ global_max_distance_sq = -1
       /\ global_current_tip = initial_tip
  /\ (Returned(MainCall) /\ Supported(MainCall) /\ ~FieldPresent(MainCall)) =>
       /\ ret[MainCall] = 1
       /\ output[MainCall] = <<initial_tip>>
\* The input has points and another array than the one asked for.
C6_Witness ==
  /\ Returned(MainCall) /\ Supported(MainCall) /\ ~FieldPresent(MainCall)
  /\ DOMAIN input[MainCall].arrays # {}
  /\ \E k \in 1..Len(input[MainCall].points) :
       /\ InsideRegion(PointAt(MainCall, k))
       /\ PointAt(MainCall, k) # initial_tip
       /\ input[MainCall].arrays["d"][k] > d_c
  /\ ret[MainCall] = 1
  /\ output[MainCall] = <<initial_tip>>

\* No point is scanned and 0 is returned on an unsupported input.
C7_NoScan ==
  (pc[MainCall] \in {"dispatch", "done"} /\ ~Supported(MainCall)) =>
    /\ i[MainCall] = 0
    /\ global_max_distance_sq = -1
    /\ global_current_tip = initial_tip
    /\ pc[MainCall] = "done" => ret[MainCall] = 0
\* A step of a call on an unsupported input leaves the output as it was.
C7_OutputKept ==
  (pc'[MainCall] # "idle" /\ input'[MainCall].type # "vtkUnstructuredGrid") =>
    output' = output
\* C7: on an input that is not a vtkUnstructuredGrid, no point is scanned,
\* no step of the call changes the output and the call returns 0.
C7_Unsupported == []C7_NoScan /\ [][C7_OutputKept]_vars
\* An earlier call has written a point; the unsupported input holds a
\* qualifying point that is not that one.
C7_Witness ==
  /\ Returned(MainCall) /\ ~Supported(MainCall) /\ FieldPresent(MainCall)
  /\ ret[MainCall] = 0
  /\ output[MainCall] # NoOutput
  /\ \E k \in Qualifying(MainCall) :
       /\ PointAt(MainCall, k) # initial_tip
       /\ output[MainCall] # <<PointAt(MainCall, k)>>

\* C8: whatever calls and setters came before, the tip of a call is the one
\* a freshly constructed filter with the same configuration gives on the
\* same input: when the scan is over and when the call has returned.
C8_Stateless ==
  LET fresh == FreshRequestData(input[MainCall], Config)
  IN /\ pc[MainCall] = "emit" => global_current_tip = fresh.tip
     /\ Returned(MainCall) =>
          /\ ret[MainCall] = fresh.ret
          /\ ret[MainCall] = 1 => output[MainCall] = <<fresh.tip>>
\* The scan of a later call is over: an earlier call has written another
\* point, and a setter has moved the reference point.
C8_Witness ==
  /\ pc[MainCall] = "emit"
  /\ output[MainCall] # NoOutput
  /\ output[MainCall] # <<global_current_tip>>
  /\ output[MainCall] # <<initial_tip>>
  /\ initial_tip # DefaultTip
  /\ global_current_tip # initial_tip

\* C9: each of two calls whose steps interleave on the same filter writes
\* the tip it would write when run alone.
C9_Interleaved ==
  \A c \in Calls :
    (Returned(c) /\ ret[c] = 1) =>
      output[c] = <<FreshRequestData(input[c], Config).tip>>

\* The state of the scan of a call.
C10_ScanState ==
  pc[MainCall] \in {"dispatch", "loop", "emit"} =>
    LET Q == QualifyingUpTo(MainCall, i[MainCall])
    IN \/ /\ Q = {}
          /\ global_max_distance_sq = -1
          /\ global_current_tip = initial_tip
       \/ /\ global_max_distance_sq >= 0
          /\ global_max_distance_sq = SqDistance(global_current_tip, initial_tip)
          /\ \E k \in Q : PointAt(MainCall, k) = global_current_tip
\* One iteration of the scan of a call.
C10_ScanStep ==
  IsLoopStep(MainCall) =>
    LET k == i[MainCall] + 1
        changed == \/ global_max_distance_sq' # global_max_distance_sq
                   \/ global_current_tip' # global_current_tip
    IN /\ global_max_distance_sq' >= global_max_distance_sq
       /\ changed =>
            /\ Qualifies(MainCall, k)
            /\ DistAt(MainCall, k) > global_max_distance_sq
            /\ global_max_distance_sq' = DistAt(MainCall, k)
            /\ global_current_tip' = PointAt(MainCall, k)
       /\ (Qualifies(MainCall, k) /\ global_max_distance_sq = -1) =>
            /\ global_max_distance_sq' = DistAt(MainCall, k)
            /\ global_current_tip' = PointAt(MainCall, k)
\* C10: during the scan either no qualifying point was seen, the best
\* distance is -1 and the best point is the reference point, or the best
\* distance is the squared distance of the best point, which is a qualifying
\* point already scanned; an iteration never lowers the best distance and
\* changes the pair only at a qualifying point strictly farther, which the
\* first qualifying point always is.
C10_ScanInvariant == []C10_ScanState /\ [][C10_ScanStep]_vars
\* The first qualifying point lies on the reference point and was accepted.
C10_Witness ==
  /\ pc[MainCall] \in {"loop", "emit"} /\ i[MainCall] >= 1
  /\ QualifyingUpTo(MainCall, i[MainCall]) = {i[MainCall]}
  /\ PointAt(MainCall, i[MainCall]) = initial_tip
  /\ global_max_distance_sq = 0
  /\ global_current_tip = initial_tip

====
